---- MODULE Spec2Model ----
(***************************************************************************)
(* Model of gpsviz_crawl.py: EXIF GPS extraction, hemisphere sign, UTM     *)
(* zone selection, and the directory traversal / plot / save pipeline of   *)
(* plot_photo_locations.                                                   *)
(*                                                                         *)
(* Representation of Python values                                         *)
(*   - a dict is a function whose DOMAIN is the set of its keys;           *)
(*   - an optional number is [none |-> BOOLEAN, v |-> Int];                *)
(*   - decimal degrees are kept exactly, in arc-seconds (degrees * 3600):  *)
(*     d + m/60.0 + s/3600.0 of integer d, m, s is (3600d + 60m + s)/3600; *)
(*   - an IFDRational is [num |-> Int, den |-> Int]; a float obtained by a *)
(*     division is the reduced fraction.                                   *)
(***************************************************************************)
EXTENDS Integers, Sequences, FiniteSets, TLC

VARIABLES
    tree,           \* the scanned directory: sequence of files, in enumeration order
    output,         \* photo_locations_and_altitudes.png in the root, or NoFile
    run,            \* number of the current invocation of the tool
    prev,           \* how the previous invocation ended, and what it accumulated
    pc,             \* position of the control flow
    walkDir,        \* directory os.walk is currently yielding
    todo,           \* files of that directory not yet iterated
    cur,            \* file bound to img_path
    handles,        \* number of open image file handles
    opened,         \* per file: number of Image.open calls in this run
    exif_data,      \* local of plot_photo_locations
    coord,          \* locals lat, lon, alt of plot_photo_locations
    utm_x_values,   \* accumulator list
    utm_y_values,   \* accumulator list
    altitudes,      \* accumulator list
    saves,          \* number of savefig calls in this run
    printed,        \* the confirmation line was printed in this run
    arg,            \* argument of a function called on its own
    ret             \* its result

vars == <<tree, output, run, prev, pc, walkDir, todo, cur, handles, opened,
          exif_data, coord, utm_x_values, utm_y_values, altitudes, saves,
          printed, arg, ret>>

-----------------------------------------------------------------------------
(* Bounds of the model *)

\* number of files in the scanned tree
MaxFiles == 2
\* number of consecutive invocations of the tool
MaxRuns == 2
\* number of doubles just below 180.0 taken as longitudes
MaxUlps == 3

-----------------------------------------------------------------------------
(* Python values *)

EmptyDict == [k \in {} |-> 0]

PyNone == [none |-> TRUE, v |-> 0]

Num(x) == [none |-> FALSE, v |-> x]

\* truth value of an optional number: None and 0 / 0.0 are false
TruthyNum(x) == ~x.none /\ x.v # 0

HasKey(d, k) == k \in DOMAIN d

\* dict.get(key): the value or None; `blank` fills the v of None
get(d, k, blank) ==
    IF HasKey(d, k) THEN [none |-> FALSE, v |-> d[k]]
    ELSE [none |-> TRUE, v |-> blank]

\* truth value of a str or None: None and "" are false
TruthyStr(x) == ~x.none /\ x.v # ""

\* truth value of a tuple or None: None and () are false
TruthyTuple(x) == ~x.none /\ Len(x.v) > 0

\* truth value of an IFDRational or None: None is false, a rational is false
\* when its value is 0; n/0 holds NaN, which is true
TruthyRational(x) == ~x.none /\ (x.v.num # 0 \/ x.v.den = 0)

RECURSIVE GCD(_, _)
GCD(a, b) == IF b = 0 THEN a ELSE GCD(b, a % b)

Abs(x) == IF x < 0 THEN -x ELSE x

\* the float n / float(d), d # 0, as a reduced fraction with positive denominator
Quotient(n, d) ==
    LET g == GCD(Abs(n), Abs(d))
        s == IF d < 0 THEN -1 ELSE 1
    IN  [num |-> s * (n \div g), den |-> s * (d \div g)]

-----------------------------------------------------------------------------
(* PIL.ExifTags *)

\* TAGS, restricted to the tags the model's images carry
TAGS == (271 :> "Make") @@ (34853 :> "GPSInfo")

\* GPSTAGS, restricted likewise
GPSTAGS == (1 :> "GPSLatitudeRef") @@ (2 :> "GPSLatitude") @@
           (3 :> "GPSLongitudeRef") @@ (4 :> "GPSLongitude") @@
           (6 :> "GPSAltitude")

\* {decode[t]: value[t] for t in value}
Decode(table, value) ==
    [name \in {table[t] : t \in DOMAIN value} |->
        value[CHOOSE t \in DOMAIN value : table[t] = name]]

-----------------------------------------------------------------------------
(* get_exif_data *)

Raised == [raised |-> TRUE, value |-> EmptyDict]

Returned(x) == [raised |-> FALSE, value |-> x]

\* image._getexif(): raises when the image class has no such method or the
\* EXIF block cannot be parsed, None when the image has no EXIF block
getexif_raises(image) == image.kind = "nogetexif"

getexif_none(image) == image.kind # "exif"

get_exif_data(image) ==
    IF getexif_raises(image) THEN Raised
    ELSE IF getexif_none(image) THEN Returned(EmptyDict)
    ELSE LET exif == image.raw
             plain == [n \in {TAGS[t] : t \in DOMAIN exif} \ {"GPSInfo"} |->
                          exif[CHOOSE t \in DOMAIN exif : TAGS[t] = n]]
         IN  IF 34853 \in DOMAIN exif
             THEN Returned(plain @@ ("GPSInfo" :> Decode(GPSTAGS, exif[34853])))
             ELSE Returned(plain)

-----------------------------------------------------------------------------
(* convert_to_degrees, get_coordinates *)

\* d + m / 60.0 + s / 3600.0, in arc-seconds
convert_to_degrees(value) == 3600 * value[1] + 60 * value[2] + value[3]

\* a sign rule that keeps "N"/"E" positive and negates every other reference
HemisphereSignUnlessNorthEast(ref, negative) ==
    IF ref = "N" \/ ref = "E" THEN 1 ELSE -1

\* (-1 if ref == negative else 1)
HemisphereSign(ref, negative) == IF ref = negative THEN -1 ELSE 1

\* a test of the two tuples alone
HasRequiredLatLon(lat, lon, lat_ref, lon_ref) ==
    TruthyTuple(lat) /\ TruthyTuple(lon)

\* if lat and lon and lat_ref and lon_ref
HasRequired(lat, lon, lat_ref, lon_ref) ==
    /\ TruthyTuple(lat)
    /\ TruthyTuple(lon)
    /\ TruthyStr(lat_ref)
    /\ TruthyStr(lon_ref)

\* return None, None, None
NoResult == [raised |-> FALSE, lat |-> PyNone, lon |-> PyNone,
             alt |-> [none |-> TRUE, num |-> 0, den |-> 1]]

CoordRaised == [raised |-> TRUE, lat |-> PyNone, lon |-> PyNone,
                alt |-> [none |-> TRUE, num |-> 0, den |-> 1]]

Triple(latitude, longitude, altitude) ==
    [raised |-> FALSE, lat |-> Num(latitude), lon |-> Num(longitude),
     alt |-> [none |-> FALSE, num |-> altitude.num, den |-> altitude.den]]

\* if altitude: altitude.numerator / float(altitude.denominator) raises
\* ZeroDivisionError on a zero denominator
AltitudeRaises(altitude) == TruthyRational(altitude) /\ altitude.v.den = 0

\* an altitude computed with floor division
AltitudeValueFloorDiv(altitude) ==
    IF TruthyRational(altitude)
    THEN [num |-> altitude.v.num \div altitude.v.den, den |-> 1]
    ELSE [num |-> 0, den |-> 1]

\* if altitude: numerator / float(denominator), else 0
AltitudeValue(altitude) ==
    IF TruthyRational(altitude)
    THEN Quotient(altitude.v.num, altitude.v.den)
    ELSE [num |-> 0, den |-> 1]

get_coordinates(exif) ==
    IF HasKey(exif, "GPSInfo")
    THEN LET gps_info == exif["GPSInfo"]
             lat == get(gps_info, "GPSLatitude", <<>>)
             lat_ref == get(gps_info, "GPSLatitudeRef", "")
             lon == get(gps_info, "GPSLongitude", <<>>)
             lon_ref == get(gps_info, "GPSLongitudeRef", "")
             altitude == get(gps_info, "GPSAltitude", [num |-> 0, den |-> 1])
         IN  IF HasRequired(lat, lon, lat_ref, lon_ref)
             THEN LET latitude == convert_to_degrees(lat.v)
                                    * HemisphereSign(lat_ref.v, "S")
                      longitude == convert_to_degrees(lon.v)
                                    * HemisphereSign(lon_ref.v, "W")
                  IN  IF AltitudeRaises(altitude) THEN CoordRaised
                      ELSE Triple(latitude, longitude, AltitudeValue(altitude))
             ELSE NoResult
    ELSE NoResult

-----------------------------------------------------------------------------
(* to_utm *)

\* A longitude handed to to_utm is the double sec/3600 - ulps * 2^-45.  ulps > 0
\* is used only at sec = 648000: the doubles just below 180.0, which lie 2^-45
\* apart.
Lon(sec, ulps) == [sec |-> sec, ulps |-> ulps]

\* IEEE-754 round-half-to-even of n/2
HalfToEven(n) ==
    IF n % 2 = 0 THEN n \div 2
    ELSE IF ((n - 1) \div 2) % 2 = 0 THEN (n - 1) \div 2 ELSE (n + 1) \div 2

\* the double lon + 180, as sec/3600 - ulps * 2^-44.  With ulps = 0 the sum is
\* taken exactly.  180 - k * 2^-45 plus 180 lies in [256, 512), where doubles
\* are 2^-44 apart, and 360.0 has an even significand: the sum is rounded to
\* 360 - HalfToEven(k) * 2^-44.
fl_add_180(lon) == [sec |-> lon.sec + 180 * 3600, ulps |-> HalfToEven(lon.ulps)]

\* math.floor(x / 6).  A double below a multiple of 6 by u * 2^-44, u >= 1,
\* divided by 6 stays below the integer (60 - 4u/3 * 2^-47 rounds below 60).
floor_div_6(x) ==
    IF x.ulps > 0 /\ x.sec % (6 * 3600) = 0
    THEN (x.sec \div (6 * 3600)) - 1
    ELSE x.sec \div (6 * 3600)

\* zone_number = math.floor((lon + 180) / 6) + 1
zone_number(lon) == floor_div_6(fl_add_180(lon)) + 1

\* pyproj.Proj(proj='utm', zone=zone_number, ellps='WGS84') raises for a zone
\* outside 1..60
proj_raises(zone) == zone < 1 \/ zone > 60

\* proj_utm(lon, lat): the projected point, kept as the term it is computed from
proj_utm(zone, lon, lat) == [zone |-> zone, lon |-> lon, lat |-> lat]

to_utm(lat, lon) ==
    LET zone == zone_number(Lon(lon, 0))
    IN  IF proj_raises(zone)
        THEN [raised |-> TRUE, utm_x |-> <<>>, utm_y |-> <<>>]
        ELSE [raised |-> FALSE,
              utm_x |-> <<"easting", proj_utm(zone, lon, lat)>>,
              utm_y |-> <<"northing", proj_utm(zone, lon, lat)>>]

-----------------------------------------------------------------------------
(* Inputs of the functions checked on their own *)

LatitudeValues == {<<0, 0, 0>>, <<37, 46, 30>>}

LongitudeValues == {<<0, 0, 0>>, <<122, 25, 6>>, <<180, 0, 0>>}

LatitudeRefs == {"", "N", "S", "?"}

LongitudeRefs == {"", "E", "W", "?"}

AltitudeValues == {[num |-> 0, den |-> 1], [num |-> 30, den |-> 1],
                   [num |-> 61, den |-> 2], [num |-> 0, den |-> 0]}

\* a key that is absent, or present with one of the values
Optional(key, values) == {EmptyDict} \cup {key :> v : v \in values}

GpsTables ==
    {a @@ b @@ c @@ d @@ e :
        a \in Optional("GPSLatitude", LatitudeValues),
        b \in Optional("GPSLatitudeRef", LatitudeRefs),
        c \in Optional("GPSLongitude", LongitudeValues),
        d \in Optional("GPSLongitudeRef", LongitudeRefs),
        e \in Optional("GPSAltitude", AltitudeValues)}

ExifArgs == {EmptyDict, "Make" :> "Cam"} \cup {"GPSInfo" :> g : g \in GpsTables}

\* longitudes in [-180, 180): every tenth of a degree, and the doubles just
\* below 180.0
LonArgs == {Lon(360 * t, 0) : t \in -1800 .. 1799}
             \cup {Lon(180 * 3600, k) : k \in 1 .. MaxUlps}

NoFile == [dir |-> 0, name |-> <<>>, kind |-> "none", raw |-> EmptyDict, pixels |-> 0]

Idle ==
    /\ tree = <<>> /\ output = NoFile /\ run = 0
    /\ prev = [status |-> "none", x |-> <<>>, y |-> <<>>, z |-> <<>>]
    /\ walkDir = 0 /\ todo = {} /\ cur = 0 /\ handles = 0
    /\ opened = <<>> /\ exif_data = EmptyDict /\ coord = NoResult
    /\ utm_x_values = <<>> /\ utm_y_values = <<>> /\ altitudes = <<>>
    /\ saves = 0 /\ printed = FALSE

traversal == <<tree, output, run, prev, walkDir, todo, cur, handles, opened,
               exif_data, coord, utm_x_values, utm_y_values, altitudes, saves,
               printed>>

InitCoord ==
    /\ Idle
    /\ pc = "call"
    /\ arg \in ExifArgs
    /\ ret = NoResult

CallGetCoordinates ==
    /\ pc = "call"
    /\ ret' = get_coordinates(arg)
    /\ pc' = "return"
    /\ UNCHANGED <<arg, traversal>>

SpecCoord == InitCoord /\ [][CallGetCoordinates]_vars

InitUtm ==
    /\ Idle
    /\ pc = "call"
    /\ arg \in LonArgs
    /\ ret = 0

CallZoneNumber ==
    /\ pc = "call"
    /\ ret' = zone_number(arg)
    /\ pc' = "return"
    /\ UNCHANGED <<arg, traversal>>

SpecUtm == InitUtm /\ [][CallZoneNumber]_vars

-----------------------------------------------------------------------------
(* The scanned directory *)

\* str.lower(), on the characters file names are made of
Lower(c) ==
    CASE c = "J" -> "j" [] c = "P" -> "p" [] c = "G" -> "g"
      [] c = "N" -> "n" [] c = "E" -> "e" [] OTHER -> c

lower(name) == [i \in 1 .. Len(name) |-> Lower(name[i])]

\* str.endswith(suffix)
endswith(name, suffix) ==
    /\ Len(name) >= Len(suffix)
    /\ SubSeq(name, Len(name) - Len(suffix) + 1, Len(name)) = suffix

Extensions == {<<".", "p", "n", "g">>, <<".", "j", "p", "g">>,
               <<".", "j", "p", "e", "g">>}

\* file.lower().endswith(('.png', '.jpg', '.jpeg'))
Matches(name) == \E suffix \in Extensions : endswith(lower(name), suffix)

OutputName ==
    <<"p", "h", "o", "t", "o", "_", "l", "o", "c", "a", "t", "i", "o", "n", "s",
      "_", "a", "n", "d", "_", "a", "l", "t", "i", "t", "u", "d", "e", "s",
      ".", "p", "n", "g">>

\* plt.subplots(1, 2, figsize=(60, 24)): the figure, in inches
FigWidth == 60

FigHeight == 24

\* plt.savefig(..., dpi=300)
Dpi == 300

\* the raster at twice the resolution
savefig_pixels_600dpi == (FigWidth * 2 * Dpi) * (FigHeight * 2 * Dpi)

\* pixels of the raster savefig writes
savefig_pixels == (FigWidth * Dpi) * (FigHeight * Dpi)

\* PIL.Image.MAX_IMAGE_PIXELS; Image.open raises DecompressionBombError above
\* twice this size, and only warns between once and twice
MAX_IMAGE_PIXELS == 89478485

\* Image.open(img_path) raises: the file cannot be read or identified as an
\* image, or it is a decompression bomb
open_raises(file) ==
    \/ file.kind = "notimage"
    \/ file.pixels > 2 * MAX_IMAGE_PIXELS

\* the file savefig writes: a PNG without an EXIF block, holding the plot of
\* the three lists
Plot(xs, ys, zs) ==
    [dir |-> 0, name |-> OutputName, kind |-> "plot",
     raw |-> [x |-> xs, y |-> ys, z |-> zs], pixels |-> savefig_pixels]

\* directory 0 is the root, directory 1 a subdirectory of it
Dirs == {0, 1}

Path(dir, name) == [dir |-> dir, name |-> name]

\* where files may lie: three names that match, in the three extensions and in
\* mixed case, and two that do not
MatchingPaths ==
    {Path(0, <<"a", ".", "j", "p", "g">>),
     Path(1, <<"B", ".", "J", "p", "E", "G">>),
     Path(0, <<"c", ".", "P", "N", "G">>)}

OtherPaths ==
    {Path(1, <<"d", ".", "t", "x", "t">>), Path(0, <<"e", "j", "p", "g">>)}

RawGps(lat, latref, lon, lonref) ==
    (2 :> lat) @@ (1 :> latref) @@ (4 :> lon) @@ (3 :> lonref)

FullFix ==
    34853 :> (RawGps(<<37, 46, 30>>, "N", <<122, 25, 6>>, "W")
                @@ (6 :> [num |-> 30, den |-> 1]))

\* raw EXIF blocks: no GPS, a full fix, a fix on the equator without altitude,
\* a missing longitude reference, a 0/0 altitude, a longitude of 180 degrees
RawExifs ==
    { 271 :> "Cam",
      FullFix,
      34853 :> RawGps(<<0, 0, 0>>, "N", <<10, 0, 0>>, "E"),
      34853 :> ((2 :> <<37, 46, 30>>) @@ (1 :> "N") @@ (4 :> <<122, 25, 6>>)),
      34853 :> (RawGps(<<37, 46, 30>>, "S", <<122, 25, 6>>, "E")
                  @@ (6 :> [num |-> 0, den |-> 0])),
      34853 :> RawGps(<<37, 46, 30>>, "N", <<180, 0, 0>>, "E") }

Contents ==
    {[kind |-> k, raw |-> EmptyDict] : k \in {"notimage", "nogetexif", "noexif"}}
      \cup {[kind |-> "exif", raw |-> r] : r \in RawExifs}

\* a photo of 12 megapixels at `path`
File(path, content) ==
    [dir |-> path.dir, name |-> path.name, kind |-> content.kind,
     raw |-> content.raw, pixels |-> 12000000]

Files ==
    {File(p, c) : p \in MatchingPaths, c \in Contents}
      \cup {File(p, c) : p \in OtherPaths,
                         c \in {[kind |-> "notimage", raw |-> EmptyDict],
                                [kind |-> "exif", raw |-> FullFix]}}

\* a directory holds no two files of one name
Trees ==
    {t \in UNION {[1 .. n -> Files] : n \in 0 .. MaxFiles} :
        \A i, j \in DOMAIN t :
            (t[i].dir = t[j].dir /\ t[i].name = t[j].name) => i = j}

\* the output file has id 0, the files of the tree their index
OutId == 0

FileIds == {OutId} \cup DOMAIN tree

FileAt(id) == IF id = OutId THEN output ELSE tree[id]

\* os.walk's `files` for a directory, as it stands when the directory is listed
Listing(dir, out) ==
    {i \in DOMAIN tree : tree[i].dir = dir}
      \cup (IF dir = 0 /\ out.kind # "none" THEN {OutId} ELSE {})

-----------------------------------------------------------------------------
(* plot_photo_locations *)

NoPrev == [status |-> "none", x |-> <<>>, y |-> <<>>, z |-> <<>>]

Init ==
    /\ tree \in Trees
    /\ output = NoFile
    /\ run = 1
    /\ prev = NoPrev
    /\ pc = "walk"
    /\ walkDir = 0
    /\ todo = Listing(0, NoFile)
    /\ cur = 0
    /\ handles = 0
    /\ opened = [i \in FileIds |-> 0]
    /\ exif_data = EmptyDict
    /\ coord = NoResult
    /\ utm_x_values = <<>> /\ utm_y_values = <<>> /\ altitudes = <<>>
    /\ saves = 0
    /\ printed = FALSE
    /\ arg = 0 /\ ret = 0

fixed == <<tree, run, prev, arg, ret>>

written == <<output, saves, printed>>

\* an exception that ends the loop and lets the plot step run
CaughtThenPlot == "plot"

\* an exception nothing catches leaves plot_photo_locations
Uncaught == "error"

\* an exception that leaves the image open
ExitOnRaiseLeak(h) == h

\* leaving the with block on an exception closes the image
ExitOnRaise(h) == h - 1

\* leaving the with block normally closes the image
ExitWith(h) == h - 1

\* the next file of `files`: the tree's files come in the directory's order, the
\* output file of an earlier run anywhere among them
NextInOrder(f) == f = OutId \/ \A g \in todo \ {OutId} : f <= g

\* for file in files: a name that does not match is passed over
SkipFile ==
    /\ pc = "walk"
    /\ \E f \in todo :
        /\ NextInOrder(f)
        /\ ~Matches(FileAt(f).name)
        /\ todo' = todo \ {f}
    /\ UNCHANGED <<fixed, written, pc, walkDir, cur, handles, opened, exif_data,
                   coord, utm_x_values, utm_y_values, altitudes>>

\* for file in files: with Image.open(img_path) as img
OpenFile ==
    /\ pc = "walk"
    /\ \E f \in todo :
        /\ NextInOrder(f)
        /\ Matches(FileAt(f).name)
        /\ todo' = todo \ {f}
        /\ cur' = f
        /\ opened' = [opened EXCEPT ![f] = @ + 1]
        /\ IF open_raises(FileAt(f))
           THEN pc' = Uncaught /\ UNCHANGED handles
           ELSE pc' = "opened" /\ handles' = handles + 1
    /\ UNCHANGED <<fixed, written, walkDir, exif_data, coord, utm_x_values,
                   utm_y_values, altitudes>>

\* exif_data = get_exif_data(img)
GetExif ==
    /\ pc = "opened"
    /\ LET r == get_exif_data(FileAt(cur))
       IN  IF r.raised
           THEN pc' = Uncaught /\ handles' = ExitOnRaise(handles)
                  /\ UNCHANGED exif_data
           ELSE pc' = "exif" /\ exif_data' = r.value /\ UNCHANGED handles
    /\ UNCHANGED <<fixed, written, walkDir, todo, cur, opened, coord,
                   utm_x_values, utm_y_values, altitudes>>

\* lat, lon, alt = get_coordinates(exif_data)
GetCoordinates ==
    /\ pc = "exif"
    /\ LET r == get_coordinates(exif_data)
       IN  IF r.raised
           THEN pc' = Uncaught /\ handles' = ExitOnRaise(handles)
                  /\ UNCHANGED coord
           ELSE pc' = "coords" /\ coord' = r /\ UNCHANGED handles
    /\ UNCHANGED <<fixed, written, walkDir, todo, cur, opened, exif_data,
                   utm_x_values, utm_y_values, altitudes>>

\* if lat and lon
HasPoint(c) == TruthyNum(c.lat) /\ TruthyNum(c.lon)

\* if lat and lon: to_utm and the three appends; then the with block ends
Accumulate ==
    /\ pc = "coords"
    /\ IF HasPoint(coord)
       THEN LET r == to_utm(coord.lat.v, coord.lon.v)
            IN  IF r.raised
                THEN /\ pc' = Uncaught
                     /\ handles' = ExitOnRaise(handles)
                     /\ UNCHANGED <<utm_x_values, utm_y_values, altitudes>>
                ELSE /\ pc' = "walk"
                     /\ handles' = ExitWith(handles)
                     /\ utm_x_values' = Append(utm_x_values, r.utm_x)
                     /\ utm_y_values' = Append(utm_y_values, r.utm_y)
                     /\ altitudes' = Append(altitudes, coord.alt)
       ELSE /\ pc' = "walk"
            /\ handles' = ExitWith(handles)
            /\ UNCHANGED <<utm_x_values, utm_y_values, altitudes>>
    /\ UNCHANGED <<fixed, written, walkDir, todo, cur, opened, exif_data, coord>>

\* os.walk yields the next directory, top-down
NextDir ==
    /\ pc = "walk"
    /\ todo = {}
    /\ walkDir + 1 \in Dirs
    /\ walkDir' = walkDir + 1
    /\ todo' = Listing(walkDir + 1, output)
    /\ UNCHANGED <<fixed, written, pc, cur, handles, opened, exif_data, coord,
                   utm_x_values, utm_y_values, altitudes>>

\* os.walk is exhausted: the loop ends
EndWalk ==
    /\ pc = "walk"
    /\ todo = {}
    /\ walkDir + 1 \notin Dirs
    /\ pc' = "plot"
    /\ UNCHANGED <<fixed, written, walkDir, todo, cur, handles, opened,
                   exif_data, coord, utm_x_values, utm_y_values, altitudes>>

\* the two scatter plots and plt.savefig(os.path.join(folder_path, ...))
PlotAndSave ==
    /\ pc = "plot"
    /\ output' = Plot(utm_x_values, utm_y_values, altitudes)
    /\ saves' = saves + 1
    /\ pc' = "saved"
    /\ UNCHANGED <<fixed, walkDir, todo, cur, handles, opened, exif_data, coord,
                   utm_x_values, utm_y_values, altitudes, printed>>

\* print(f"Plot saved as ...")
PrintSaved ==
    /\ pc = "saved"
    /\ printed' = TRUE
    /\ pc' = "done"
    /\ UNCHANGED <<fixed, output, saves, walkDir, todo, cur, handles, opened,
                   exif_data, coord, utm_x_values, utm_y_values, altitudes>>

\* the tool is run again on the directory as the last run left it
Rerun ==
    /\ pc \in {"done", "error"}
    /\ run < MaxRuns
    /\ run' = run + 1
    /\ prev' = [status |-> pc, x |-> utm_x_values, y |-> utm_y_values,
                z |-> altitudes]
    /\ pc' = "walk"
    /\ walkDir' = 0
    /\ todo' = Listing(0, output)
    /\ cur' = 0
    /\ handles' = 0
    /\ opened' = [i \in FileIds |-> 0]
    /\ exif_data' = EmptyDict
    /\ coord' = NoResult
    /\ utm_x_values' = <<>> /\ utm_y_values' = <<>> /\ altitudes' = <<>>
    /\ saves' = 0
    /\ printed' = FALSE
    /\ UNCHANGED <<tree, output, arg, ret>>

Next ==
    \/ SkipFile
    \/ OpenFile
    \/ GetExif
    \/ GetCoordinates
    \/ Accumulate
    \/ NextDir
    \/ EndWalk
    \/ PlotAndSave
    \/ PrintSaved
    \/ Rerun

Spec == Init /\ [][Next]_vars

-----------------------------------------------------------------------------
(* Properties of the traversal *)

RequiredTags == {1, 2, 3, 4}

\* the file cannot be opened, carries no metadata, or lacks GPS fields
Unsuitable(file) ==
    \/ file.kind \in {"notimage", "noexif"}
    \/ /\ file.kind = "exif"
       /\ \/ 34853 \notin DOMAIN file.raw
          \/ ~(RequiredTags \subseteq DOMAIN file.raw[34853])

\* C1: no failure on an individual matching file is surfaced: the run is never
\* aborted on a file that fails to open, carries no metadata or lacks GPS
\* fields.
C1_UnsuitableFileIsSkipped ==
    pc = "error" => ~Unsuitable(FileAt(cur))

\* the file's metadata yields a latitude and a longitude
YieldsLatLon(file) ==
    /\ ~open_raises(file)
    /\ ~get_exif_data(file).raised
    /\ LET c == get_coordinates(get_exif_data(file).value)
       IN  ~c.raised /\ ~c.lat.none /\ ~c.lon.none

Located == {f \in DOMAIN tree : Matches(tree[f].name) /\ YieldsLatLon(tree[f])}

\* C2: when the traversal completes, the accumulator lists hold exactly one
\* entry for every matching file whose metadata yields a latitude and a
\* longitude, whatever their values.
C2_OneEntryPerLocatedFile ==
    pc = "plot" =>
        /\ Len(utm_x_values) = Cardinality(Located)
        /\ Len(utm_y_values) = Cardinality(Located)
        /\ Len(altitudes) = Cardinality(Located)

\* the output file lay in the root when this run listed it
OutputAtStart == run > 1 /\ prev.status = "done"

\* C7: a second run on the directory the first run left, which finds the first
\* run's output file among the .png files, ends without error, accumulates
\* the points the first run accumulated, and leaves the one output file with
\* the content the first run gave it.
C7_RerunSameOutput ==
    OutputAtStart =>
        /\ pc # "error"
        /\ pc = "done" =>
              /\ utm_x_values = prev.x
              /\ utm_y_values = prev.y
              /\ altitudes = prev.z
              /\ output = Plot(prev.x, prev.y, prev.z)

C7_Witness ==
    /\ run = 2 /\ pc = "done" /\ OutputAtStart
    /\ Matches(output.name) /\ opened[OutId] = 1
    /\ Len(altitudes) >= 1

\* every file the walk has to visit in this run
ToVisit ==
    {f \in DOMAIN tree : Matches(tree[f].name)}
      \cup (IF OutputAtStart THEN {OutId} ELSE {})

\* C8: a run that an error ended has written no output file and printed no
\* confirmation, whatever it had accumulated; the output file is written, and
\* the confirmation printed, only after every matching file was visited.
C8_NoPlotAfterError ==
    /\ pc = "error" => saves = 0 /\ ~printed
    /\ (saves > 0 \/ printed) =>
          /\ pc \in {"saved", "done"}
          /\ \A f \in ToVisit : opened[f] = 1

C8_Witness ==
    pc = "error" /\ Len(altitudes) >= 1 /\ saves = 0 /\ ~printed

\* C9: at most one image handle is open, and none is open between two files,
\* at the plot step, or once an error has left the function.
C9_OneHandleReleased ==
    /\ handles \in {0, 1}
    /\ pc \in {"walk", "plot", "saved", "done", "error"} => handles = 0

C9_Witness ==
    /\ pc = "error" /\ handles = 0
    /\ opened[cur] = 1 /\ ~open_raises(FileAt(cur))

\* C10: a file is opened exactly when its name ends in .png, .jpg or .jpeg in
\* any case; once a run has ended, every file with such a name was opened
\* exactly once and no other file was opened.
C10_EachMatchingFileOnce ==
    pc \in {"plot", "saved", "done", "error"} =>
        \A f \in DOMAIN tree :
            opened[f] = (IF Matches(tree[f].name) THEN 1 ELSE 0)

-----------------------------------------------------------------------------
(* Properties of get_coordinates *)

GpsKeys == {"GPSLatitude", "GPSLatitudeRef", "GPSLongitude", "GPSLongitudeRef"}

\* all four required fields are present in the metadata mapping
FourPresent(exif) ==
    HasKey(exif, "GPSInfo") /\ GpsKeys \subseteq DOMAIN exif["GPSInfo"]

\* ... and none of them is empty
FourNonEmpty(exif) ==
    /\ FourPresent(exif)
    /\ exif["GPSInfo"]["GPSLatitudeRef"] # ""
    /\ exif["GPSInfo"]["GPSLongitudeRef"] # ""
    /\ exif["GPSInfo"]["GPSLatitude"] # <<>>
    /\ exif["GPSInfo"]["GPSLongitude"] # <<>>

\* C3: a mapping without a GPSInfo table, or lacking one of the four required
\* fields, yields (None, None, None) and no error, with or without GPSAltitude.
C3_MissingFieldNoResult ==
    (pc = "return" /\ ~FourPresent(arg)) =>
        ~ret.raised /\ ret.lat.none /\ ret.lon.none /\ ret.alt.none

C3_Witness ==
    /\ pc = "return"
    /\ HasKey(arg, "GPSInfo")
    /\ DOMAIN arg["GPSInfo"] = {"GPSLatitude", "GPSLatitudeRef", "GPSLongitude",
                                "GPSAltitude"}
    /\ arg["GPSInfo"]["GPSAltitude"].den = 0
    /\ ~ret.raised /\ ret.lat.none /\ ret.lon.none /\ ret.alt.none

\* the returned triple holds the magnitudes of the stored latitude and
\* longitude
ReturnsLatLon(exif, r) ==
    /\ ~r.raised /\ ~r.lat.none /\ ~r.lon.none
    /\ Abs(r.lat.v) = convert_to_degrees(exif["GPSInfo"]["GPSLatitude"])
    /\ Abs(r.lon.v) = convert_to_degrees(exif["GPSInfo"]["GPSLongitude"])

\* without GPSAltitude the triple is (lat, lon, 0); with a rational GPSAltitude
\* the altitude is numerator / denominator
AltitudeRule(exif, r) ==
    LET gps == exif["GPSInfo"]
    IN  /\ ~HasKey(gps, "GPSAltitude") =>
              /\ ReturnsLatLon(exif, r)
              /\ ~r.alt.none /\ r.alt.num = 0
        /\ (HasKey(gps, "GPSAltitude") /\ gps["GPSAltitude"].den # 0) =>
              /\ ReturnsLatLon(exif, r)
              /\ ~r.alt.none
              /\ r.alt.num * gps["GPSAltitude"].den
                   = gps["GPSAltitude"].num * r.alt.den

SignRule(exif, r) ==
    LET gps == exif["GPSInfo"]
    IN  ~r.raised =>
          /\ r.lat = Num(IF gps["GPSLatitudeRef"] = "S"
                         THEN -convert_to_degrees(gps["GPSLatitude"])
                         ELSE convert_to_degrees(gps["GPSLatitude"]))
          /\ r.lon = Num(IF gps["GPSLongitudeRef"] = "W"
                         THEN -convert_to_degrees(gps["GPSLongitude"])
                         ELSE convert_to_degrees(gps["GPSLongitude"]))

-----------------------------------------------------------------------------
(* Properties of to_utm *)

\* C6: for every longitude in [-180, 180) the zone number is in 1..60;
\* -122.4 gives zone 10 and 139.7 gives zone 54.
C6_ZoneInRange ==
    pc = "return" =>
        /\ ret \in 1 .. 60
        /\ arg = Lon(-440640, 0) => ret = 10
        /\ arg = Lon(502920, 0) => ret = 54

====
